---------------------------- MODULE Spec2Model ----------------------------
(***************************************************************************)
(* Model of examples/python/whisper_streaming_standalone.py:               *)
(* stream_and_transcribe (the second definition, lines 94-194, which is    *)
(* the one bound to the name at run time) and of the text handling it      *)
(* applies to the transcription engine's output, and of                    *)
(* examples/python/whisper_streaming.py: run_livestream (lines 6-46) with  *)
(* its two read_stream tasks.                                              *)
(*                                                                         *)
(* Bytes and characters are one-character strings (plus one token for a    *)
(* byte that is not valid UTF-8); texts are sequences of them.             *)
(***************************************************************************)
EXTENDS Integers, Sequences, FiniteSets, TLC

VARIABLES
    step_s,        \* argument step_s
    max_duration,  \* argument max_duration (0 = unbounded)
    print_openai,  \* argument print_openai (0 = plain text, 1 = structured)
    pc,            \* position of the coroutine stream_and_transcribe
    i,             \* the loop index i (line 129)
    files,         \* the paths that exist in the file system
    cap,           \* the capture process: "none", "running", "exited"
    capOpened,     \* the capture process has opened (created) its sink
    termSignals,   \* number of ffmpeg_process.terminate() calls made
    cancelReq,     \* a cancellation of the task has been requested
    exit,          \* how the coroutine left its body
    stdout,        \* what the coroutine has printed, in order
    windows,       \* the extraction commands issued, in order
    log,           \* history of the steps taken, in order
    raw,           \* parser specification: the engine output under test
    parsed,        \* parser specification: what line 172-176 printed for it
    captured,      \* seconds of audio the capture process has written
    avail,         \* value of captured when each extraction was run, in order
    script,        \* run_livestream: the lines the child writes, per channel
    written,       \* run_livestream: how many of them it has written
    pipe,          \* run_livestream: lines in each pipe, not yet read
    pipeClosed,    \* run_livestream: the child has closed its pipes
    child,         \* run_livestream: the child: "none", "running", "exited"
    returncode,    \* run_livestream: the child's exit status
    reader,        \* run_livestream: each read_stream task: "reading",
                   \*   "eof" (returned) or "raised" (ended by an exception)
    consumed,      \* run_livestream: lines each reader got from readline()
    shown,         \* run_livestream: what the readers have printed, in order
    lpc,           \* run_livestream: position of the coroutine
    retval         \* run_livestream: the value returned

streamVars == << script, written, pipe, pipeClosed, child, returncode, reader,
                 consumed, shown, lpc, retval >>

sessionVars == << step_s, max_duration, print_openai, pc, i, files, cap,
                  capOpened, termSignals, cancelReq, exit, stdout, windows,
                  log, raw, parsed, captured, avail >>

vars == << step_s, max_duration, print_openai, pc, i, files, cap, capOpened,
           termSignals, cancelReq, exit, stdout, windows, log, raw, parsed,
           captured, avail, streamVars >>

---------------------------------------------------------------------------
(* Bounds of the model *)

MaxStep == 2
MaxDuration == 3
MaxSegments == 2
MaxLen == 4
MaxCaptured == 1
MaxOutLines == 3
MaxErrLines == 1

---------------------------------------------------------------------------
(* Paths (lines 104-105) *)

live_audio_path == "/tmp/whisper-live0.wav"
processed_audio_path == "/tmp/whisper-live.wav"

ScratchPaths == {live_audio_path, processed_audio_path}

---------------------------------------------------------------------------
(* Text handling *)

NL == "\n"
BadByte == "<ff>"

\* The characters str.strip() removes, among those of the model's alphabet.
IsSpace(c) == c \in {" ", NL}

Alphabet == {"a", " ", NL, "{", "}", BadByte}

\* bytes.decode(): UTF-8 decoding raises UnicodeDecodeError on an invalid byte.
DecodeOk(bytes) == \A k \in 1..Len(bytes) : bytes[k] # BadByte

RECURSIVE LStrip(_)
LStrip(s) ==
    IF s = << >> THEN s
    ELSE IF IsSpace(Head(s)) THEN LStrip(Tail(s)) ELSE s

RECURSIVE RStrip(_)
RStrip(s) ==
    IF s = << >> THEN s
    ELSE IF IsSpace(s[Len(s)]) THEN RStrip(SubSeq(s, 1, Len(s) - 1)) ELSE s

\* str.strip()
Strip(s) == RStrip(LStrip(s))

\* str.split("\n"): the pieces between newlines; one empty piece for "".
RECURSIVE SplitNL(_)
SplitNL(s) ==
    IF \A k \in 1..Len(s) : s[k] # NL THEN << s >>
    ELSE LET k == CHOOSE n \in 1..Len(s) :
                     s[n] = NL /\ \A m \in 1..(n - 1) : s[m] # NL
         IN  << SubSeq(s, 1, k - 1) >> \o SplitNL(SubSeq(s, k + 1, Len(s)))

\* seq[-1]
LastOf(seq) == seq[Len(seq)]

PlainTranscription_first(bytes) == SplitNL(Strip(bytes))[1]

\* line 173: whisper_output.decode().strip().split("\n")[-1]
PlainTranscription(bytes) == LastOf(SplitNL(Strip(bytes)))

\* line 176: whisper_output.decode().strip()
OpenAITranscription(bytes) == Strip(bytes)

\* lines 172-176: the text printed for a successful engine run.
Printed(mode, bytes) ==
    IF mode = 0 THEN PlainTranscription(bytes) ELSE OpenAITranscription(bytes)

\* json.loads succeeds: over the model's alphabet the only JSON documents are
\* an empty object with optional white space inside and around it.
JsonLoadsOk(text) ==
    LET t == Strip(text)
    IN  /\ Len(t) >= 2
        /\ t[1] = "{"
        /\ t[Len(t)] = "}"
        /\ \A k \in 2..(Len(t) - 1) : IsSpace(t[k])

\* whisper_streaming.py line 39: the mark read_stream puts on a line that
\* is not valid JSON; no other print of the repository marks a parse failure.
ParseErrorMark == "Error: Invalid JSON on line: "

\* The messages of the two error prints (lines 153 and 178).
ExtractErrorMark == "Error extracting segment: "
TranscribeErrorMark == "Error during transcription: "


---------------------------------------------------------------------------
(* The segment clock and the loop's decisions *)

\* line 133: start_time = i * step_s
StartTime(idx, step) == idx * step

NextIndex_skip(idx) == idx + 2

NextIndex_same(idx) == idx

\* line 182: i += 1
NextIndex(idx) == idx + 1

DurationReached_late(idx, step, bound) == bound > 0 /\ idx * step > bound

DurationReached_noGuard(idx, step, bound) == idx * step >= bound

\* line 185: max_duration > 0 and i * step_s >= max_duration
DurationReached(idx, step, bound) == bound > 0 /\ idx * step >= bound

SegmentPath_perIndex(idx) ==
    IF idx = 0 THEN processed_audio_path ELSE "/tmp/whisper-live1.wav"

\* line 148: every segment is written to processed_audio_path
SegmentPath(idx) == processed_audio_path

BreakTarget_continue == "extract"

\* lines 155, 179, 187: break leaves the loop for the finally clause.
BreakTarget == "terminate"

\* lines 133-148: the window the extraction command of segment idx names.
Window(idx, step) ==
    [index |-> idx, start |-> StartTime(idx, step), duration |-> step]

\* What the extraction tool writes to its stderr when it fails (line 150).
ToolStderr == { << >>, << BadByte >> }

\* The engine outputs a session draws from.
EngineOutputs == { << >>, << "{", "}" >>, << "{" >>, << BadByte >> }

\* The segment artifacts that exist: files written by the extraction.
Artifacts == files \ {live_audio_path}

Event(op, idx, ok) == [op |-> op, index |-> idx, ok |-> ok, out |-> << >>]
EngineEvent(idx, ok, bytes) ==
    [op |-> "transcribe", index |-> idx, ok |-> ok, out |-> bytes]
Line(src, idx, text) == [src |-> src, seg |-> idx, text |-> text]

\* The variables of run_livestream, in the specifications that do not run it.
StreamIdle ==
    /\ script = [out |-> << >>, err |-> << >>]
    /\ written = [out |-> 0, err |-> 0]
    /\ pipe = [out |-> << >>, err |-> << >>]
    /\ pipeClosed = FALSE
    /\ child = "none"
    /\ returncode = 0
    /\ reader = [out |-> "none", err |-> "none"]
    /\ consumed = [out |-> 0, err |-> 0]
    /\ shown = << >>
    /\ lpc = "none"
    /\ retval = -1

---------------------------------------------------------------------------
(* The session *)

Init ==
    /\ step_s \in 1..MaxStep
    /\ max_duration \in 0..MaxDuration
    /\ print_openai \in {0, 1}
    /\ pc = "start"
    /\ i = 0
    /\ files = {}
    /\ cap = "none"
    /\ capOpened = FALSE
    /\ termSignals = 0
    /\ cancelReq = FALSE
    /\ exit = "none"
    /\ stdout = << >>
    /\ windows = << >>
    /\ log = << >>
    /\ raw = << >>
    /\ parsed = << >>
    /\ captured = 0
    /\ avail = << >>
    /\ StreamIdle

\* lines 100-101: the two banner prints.
Banner == << Line(100, -1, << >>), Line(101, -1, << >>) >>

Spawn_noBuffering ==
    /\ pc = "start"
    /\ cap' = "running"
    /\ stdout' = stdout \o Banner \o << Line(126, -1, << >>) >>
    /\ log' = Append(log, Event("spawn", -1, TRUE))
    /\ pc' = "extract"
    /\ UNCHANGED << step_s, max_duration, print_openai, i, files, capOpened,
                    termSignals, cancelReq, exit, windows, raw, parsed,
                    captured, avail, streamVars >>

\* lines 100-126: subprocess.Popen starts the capture process.
Spawn ==
    /\ pc = "start"
    /\ cap' = "running"
    /\ stdout' = stdout \o Banner \o << Line(126, -1, << >>) >>
    /\ log' = Append(log, Event("spawn", -1, TRUE))
    /\ pc' = "buffering"
    /\ UNCHANGED << step_s, max_duration, print_openai, i, files, capOpened,
                    termSignals, cancelReq, exit, windows, raw, parsed,
                    captured, avail, streamVars >>

\* line 94: the task is cancelled before its first step: CancelledError is
\* thrown into the coroutine before line 100, nothing is printed and no
\* capture process is started.
CancelledBeforeStart ==
    /\ pc = "start"
    /\ cancelReq
    /\ exit' = "cancelled_start"
    /\ pc' = "done"
    /\ UNCHANGED << step_s, max_duration, print_openai, i, files, cap,
                    capOpened, termSignals, cancelReq, stdout, windows, log,
                    raw, parsed, captured, avail, streamVars >>

\* line 125: subprocess.Popen raises (the capture tool cannot be executed).
SpawnFails ==
    /\ pc = "start"
    /\ stdout' = stdout \o Banner
    /\ log' = Append(log, Event("spawn", -1, FALSE))
    /\ exit' = "spawn_failed"
    /\ pc' = "done"
    /\ UNCHANGED << step_s, max_duration, print_openai, i, files, cap,
                    capOpened, termSignals, cancelReq, windows, raw, parsed,
                    captured, avail, streamVars >>

\* line 127: the buffering sleep completes; line 129: i = 0.
BufferingDone ==
    /\ pc = "buffering"
    /\ ~cancelReq
    /\ i' = 0
    /\ log' = Append(log, Event("buffer_sleep", -1, TRUE))
    /\ pc' = "extract"
    /\ UNCHANGED << step_s, max_duration, print_openai, files, cap, capOpened,
                    termSignals, cancelReq, exit, stdout, windows, raw, parsed,
                    captured, avail, streamVars >>

\* line 127: CancelledError is raised at the buffering sleep, which is
\* outside the try statement of line 130: the coroutine is left at once.
BufferingCancelled ==
    /\ pc = "buffering"
    /\ cancelReq
    /\ log' = Append(log, Event("buffer_sleep", -1, FALSE))
    /\ exit' = "cancelled_buffering"
    /\ pc' = "done"
    /\ UNCHANGED << step_s, max_duration, print_openai, i, files, cap,
                    capOpened, termSignals, cancelReq, stdout, windows, raw,
                    parsed,
                    captured, avail, streamVars >>

\* lines 131-155: extraction of segment i.  subprocess.run cannot execute
\* the tool and raises (line 150, no command runs); or the tool runs and
\* exits 0; or it exits non-zero: line 153 decodes its stderr, which raises
\* UnicodeDecodeError when that is not valid UTF-8, and otherwise the report
\* is printed and break leaves the loop.
\* The extraction tool can only succeed when its input, the sink, exists.
ExtractSegment ==
    /\ pc = "extract"
    /\ i < MaxSegments
    /\ \/ /\ log' = Append(log, Event("extract", i, FALSE))
          /\ exit' = "exception"
          /\ pc' = "terminate"
          /\ UNCHANGED << stdout, files, windows, avail >>
       \/ /\ live_audio_path \in files
          /\ windows' = Append(windows, Window(i, step_s))
          /\ avail' = Append(avail, captured)
          /\ files' = files \cup {SegmentPath(i)}
          /\ log' = Append(log, Event("extract", i, TRUE))
          /\ pc' = "transcribe"
          /\ UNCHANGED << stdout, exit >>
       \/ /\ windows' = Append(windows, Window(i, step_s))
          /\ avail' = Append(avail, captured)
          /\ \E wrote \in BOOLEAN :
                files' = IF wrote THEN files \cup {SegmentPath(i)} ELSE files
          /\ log' = Append(log, Event("extract", i, FALSE))
          /\ \E err \in ToolStderr :
                IF DecodeOk(err)
                THEN /\ stdout' = Append(stdout,
                            Line(153, i, << ExtractErrorMark >> \o err))
                     /\ exit' = "extract_failed"
                     /\ pc' = BreakTarget
                ELSE /\ exit' = "exception"
                     /\ pc' = "terminate"
                     /\ UNCHANGED stdout
    /\ UNCHANGED << step_s, max_duration, print_openai, i, cap, capOpened,
                    termSignals, cancelReq, raw, parsed,
                    captured, streamVars >>


\* lines 157-182: the engine runs on the segment artifact.  It exits
\* non-zero (CalledProcessError: report and break), or it cannot be run, or
\* its stderr (line 178) or its output (lines 173, 176) cannot be decoded
\* (an exception the loop does not catch, nothing is printed), or
\* it succeeds and its output is printed and the index advanced.
Transcribe ==
    /\ pc = "transcribe"
    /\ \/ /\ stdout' = Append(stdout, Line(178, i, << TranscribeErrorMark >>))
          /\ log' = Append(log, Event("transcribe", i, FALSE))
          /\ exit' = "transcribe_failed"
          /\ pc' = BreakTarget
          /\ UNCHANGED i
       \/ /\ log' = Append(log, Event("transcribe", i, FALSE))
          /\ exit' = "exception"
          /\ pc' = "terminate"
          /\ UNCHANGED << i, stdout >>
       \/ \E out \in EngineOutputs :
             IF DecodeOk(out)
             THEN /\ stdout' = Append(stdout,
                        Line(IF print_openai = 0 THEN 174 ELSE 176, i,
                             Printed(print_openai, out)))
                  /\ log' = log \o << EngineEvent(i, TRUE, out),
                                      Event("emit", i, TRUE) >>
                  /\ i' = NextIndex(i)
                  /\ pc' = "tick_sleep"
                  /\ UNCHANGED exit
             ELSE /\ log' = log \o << EngineEvent(i, TRUE, out),
                                      Event("decode", i, FALSE) >>
                  /\ exit' = "exception"
                  /\ pc' = "terminate"
                  /\ UNCHANGED << i, stdout >>
    /\ UNCHANGED << step_s, max_duration, print_openai, files, cap, capOpened,
                    termSignals, cancelReq, windows, raw, parsed,
                    captured, avail, streamVars >>

\* lines 183-187: the sleep between ticks completes, then the duration check.
TickSleepDone ==
    /\ pc = "tick_sleep"
    /\ ~cancelReq
    /\ log' = Append(log, Event("tick_sleep", i, TRUE))
    /\ IF DurationReached(i, step_s, max_duration)
       THEN /\ stdout' = Append(stdout, Line(186, -1, << >>))
            /\ exit' = "max_duration"
            /\ pc' = BreakTarget
       ELSE /\ pc' = "extract"
            /\ UNCHANGED << stdout, exit >>
    /\ UNCHANGED << step_s, max_duration, print_openai, i, files, cap,
                    capOpened, termSignals, cancelReq, windows, raw, parsed,
                    captured, avail, streamVars >>

TickSleepCancelled_noFinally ==
    /\ pc = "tick_sleep"
    /\ cancelReq
    /\ log' = Append(log, Event("tick_sleep", i, FALSE))
    /\ exit' = "cancelled"
    /\ pc' = "done"
    /\ UNCHANGED << step_s, max_duration, print_openai, i, files, cap,
                    capOpened, termSignals, cancelReq, stdout, windows, raw,
                    parsed,
                    captured, avail, streamVars >>

\* line 183: CancelledError is raised at the sleep between ticks, inside the
\* try statement: control goes to the finally clause.
TickSleepCancelled ==
    /\ pc = "tick_sleep"
    /\ cancelReq
    /\ log' = Append(log, Event("tick_sleep", i, FALSE))
    /\ exit' = "cancelled"
    /\ pc' = "terminate"
    /\ UNCHANGED << step_s, max_duration, print_openai, i, files, cap,
                    capOpened, termSignals, cancelReq, stdout, windows, raw,
                    parsed,
                    captured, avail, streamVars >>

\* line 190: ffmpeg_process.terminate() sends the signal and returns.
Terminate ==
    /\ pc = "terminate"
    /\ termSignals' = termSignals + 1
    /\ log' = Append(log, Event("terminate", -1, TRUE))
    /\ pc' = "rm_live"
    /\ UNCHANGED << step_s, max_duration, print_openai, i, files, cap,
                    capOpened, cancelReq, exit, stdout, windows, raw, parsed,
                    captured, avail, streamVars >>

\* lines 191-192: remove the capture sink if it exists.
RemoveLive ==
    /\ pc = "rm_live"
    /\ files' = files \ {live_audio_path}
    /\ log' = Append(log, Event("rm_live", -1, live_audio_path \in files))
    /\ pc' = "rm_proc"
    /\ UNCHANGED << step_s, max_duration, print_openai, i, cap, capOpened,
                    termSignals, cancelReq, exit, stdout, windows, raw, parsed,
                    captured, avail, streamVars >>

\* lines 193-194: remove the processed segment if it exists.
RemoveProcessed ==
    /\ pc = "rm_proc"
    /\ files' = files \ {processed_audio_path}
    /\ log' = Append(log, Event("rm_proc", -1, processed_audio_path \in files))
    /\ pc' = "done"
    /\ UNCHANGED << step_s, max_duration, print_openai, i, cap, capOpened,
                    termSignals, cancelReq, exit, stdout, windows, raw, parsed,
                    captured, avail, streamVars >>

\* KeyboardInterrupt is raised at the line the coroutine is executing
\* (lines 100-194).  Before the try statement of line 130 it leaves the
\* coroutine at once, with the capture process running when Popen (line 125)
\* has started it; inside the try statement (the tick has not succeeded,
\* or its result is printed and line 182 has run or not; at line 187 the
\* break has not been taken yet) control goes to the finally clause; inside
\* the finally clause it leaves the coroutine and the rest of the clause
\* never runs.  At an await (lines 127, 183) the coroutine is not
\* executing: the exception is raised in the event loop, and the coroutine
\* sees only the cancellation already requested.
Interrupted ==
    /\ \/ /\ pc = "start"
          /\ \E n \in 0..3 : \E started \in BOOLEAN :
                /\ n = 3 => started
                /\ started => n >= 2
                /\ stdout' = stdout \o
                      SubSeq(Banner \o << Line(126, -1, << >>) >>, 1, n)
                /\ cap' = IF started THEN "running" ELSE cap
                /\ log' = IF started
                          THEN Append(log, Event("spawn", -1, TRUE))
                          ELSE log
          /\ exit' = "interrupted"
          /\ pc' = "done"
          /\ UNCHANGED << i, files, windows, avail >>
       \/ /\ pc \in {"buffering", "tick_sleep"}
          /\ UNCHANGED << pc, exit, stdout, cap, log, i, files, windows,
                          avail >>
       \/ /\ pc = "extract"
          /\ \/ UNCHANGED << files, windows, avail >>
             \/ /\ windows' = Append(windows, Window(i, step_s))
                /\ avail' = Append(avail, captured)
                /\ \E wrote \in BOOLEAN :
                      files' = IF wrote THEN files \cup {SegmentPath(i)}
                               ELSE files
          /\ log' = Append(log, Event("extract", i, FALSE))
          /\ exit' = "exception"
          /\ pc' = "terminate"
          /\ UNCHANGED << stdout, cap, i >>
       \/ /\ pc = "transcribe"
          /\ \/ /\ log' = Append(log, Event("transcribe", i, FALSE))
                /\ UNCHANGED << stdout, i >>
             \/ \E out \in EngineOutputs : \E advanced \in BOOLEAN :
                   /\ DecodeOk(out)
                   /\ stdout' = Append(stdout,
                         Line(IF print_openai = 0 THEN 174 ELSE 176, i,
                              Printed(print_openai, out)))
                   /\ log' = log \o << EngineEvent(i, TRUE, out),
                                       Event("emit", i, TRUE) >>
                   /\ i' = IF advanced THEN NextIndex(i) ELSE i
          /\ exit' = "exception"
          /\ pc' = "terminate"
          /\ UNCHANGED << cap, files, windows, avail >>
       \/ /\ pc = "terminate"
          /\ \/ exit' = "exception" /\ pc' = "terminate"
             \/ exit' = "interrupted" /\ pc' = "done"
          /\ UNCHANGED << stdout, cap, log, i, files, windows, avail >>
       \/ /\ pc \in {"rm_live", "rm_proc"}
          /\ exit' = "interrupted"
          /\ pc' = "done"
          /\ UNCHANGED << stdout, cap, log, i, files, windows, avail >>
    /\ UNCHANGED << step_s, max_duration, print_openai, capOpened,
                    termSignals, cancelReq, raw, parsed, captured,
                    streamVars >>

\* The caller stops the task (SIGINT under asyncio.run, line 217, or
\* task.cancel()).  The first request cancels the task: CancelledError is
\* delivered at the next await.  Every later SIGINT raises KeyboardInterrupt
\* in the code that is running.
RequestCancel ==
    /\ pc # "done"
    /\ \/ /\ ~cancelReq
          /\ cancelReq' = TRUE
          /\ UNCHANGED << step_s, max_duration, print_openai, pc, i, files,
                          cap, capOpened, termSignals, exit, stdout, windows,
                          log, raw, parsed, captured, avail, streamVars >>
       \/ /\ cancelReq
          /\ Interrupted

\* The capture process (lines 110-125) opens its output path, once, which
\* creates the sink; it runs on its own, whatever the coroutine is doing,
\* until it exits.
CaptureOpenSink ==
    /\ cap = "running"
    /\ ~capOpened
    /\ capOpened' = TRUE
    /\ files' = files \cup {live_audio_path}
    /\ UNCHANGED << step_s, max_duration, print_openai, pc, i, cap,
                    termSignals, cancelReq, exit, stdout, windows, log, raw,
                    parsed,
                    captured, avail, streamVars >>

\* The capture process appends one more second of audio to the sink it has
\* opened; it is paced by its input (-re), not by the coroutine.
CaptureWrite ==
    /\ cap = "running"
    /\ capOpened
    /\ captured < MaxCaptured
    /\ captured' = captured + 1
    /\ UNCHANGED << step_s, max_duration, print_openai, pc, i, files, cap,
                    capOpened, termSignals, cancelReq, exit, stdout, windows,
                    log, raw, parsed, avail, streamVars >>

\* The capture process exits: on the signal, at the end of its input, or on
\* an error of its own.
CaptureExit ==
    /\ cap = "running"
    /\ cap' = "exited"
    /\ UNCHANGED << step_s, max_duration, print_openai, pc, i, files,
                    capOpened, termSignals, cancelReq, exit, stdout, windows,
                    log, raw, parsed,
                    captured, avail, streamVars >>

Next ==
    \/ CancelledBeforeStart
    \/ Spawn
    \/ SpawnFails
    \/ BufferingDone
    \/ BufferingCancelled
    \/ ExtractSegment
    \/ Transcribe
    \/ TickSleepDone
    \/ TickSleepCancelled
    \/ Terminate
    \/ RemoveLive
    \/ RemoveProcessed
    \/ RequestCancel
    \/ CaptureOpenSink
    \/ CaptureWrite
    \/ CaptureExit

Spec == Init /\ [][Next]_vars

\* The steps of the coroutine itself.  It is the only task of the event loop
\* and every call it makes is taken to return, so a step that stays possible
\* is eventually taken.
SessionStep ==
    \/ CancelledBeforeStart
    \/ Spawn
    \/ SpawnFails
    \/ BufferingDone
    \/ BufferingCancelled
    \/ ExtractSegment
    \/ Transcribe
    \/ TickSleepDone
    \/ TickSleepCancelled
    \/ Terminate
    \/ RemoveLive
    \/ RemoveProcessed

SpecFair == Init /\ [][Next]_vars /\ WF_vars(SessionStep)

\* How the coroutine ends: it has no return statement, so it returns None
\* when the loop is left by a break, and raises when an exception ends it.
Raises(how) ==
    how \in {"cancelled_start", "spawn_failed", "cancelled_buffering",
             "cancelled", "exception", "interrupted"}


---------------------------------------------------------------------------
(* The parser on its own: lines 172-176 applied to one engine output *)

Texts == UNION { [1..n -> Alphabet] : n \in 0..MaxLen }

InitParse ==
    /\ raw \in Texts
    /\ print_openai \in {0, 1}
    /\ pc = "parse"
    /\ parsed = << >>
    /\ step_s = 1
    /\ max_duration = 0
    /\ i = 0
    /\ files = {}
    /\ cap = "none"
    /\ capOpened = FALSE
    /\ termSignals = 0
    /\ cancelReq = FALSE
    /\ exit = "none"
    /\ stdout = << >>
    /\ windows = << >>
    /\ log = << >>
    /\ captured = 0
    /\ avail = << >>
    /\ StreamIdle

\* lines 172-176 on an output that decodes: one line is printed.
ParseOutput ==
    /\ pc = "parse"
    /\ DecodeOk(raw)
    /\ parsed' = << Line(IF print_openai = 0 THEN 174 ELSE 176, 0,
                         Printed(print_openai, raw)) >>
    /\ pc' = "parsed"
    /\ UNCHANGED << step_s, max_duration, print_openai, i, files, cap,
                    capOpened, termSignals, cancelReq, exit, stdout, windows,
                    log, raw,
                    captured, avail, streamVars >>

\* lines 173, 176 on an output that does not decode: UnicodeDecodeError.
ParseRaises ==
    /\ pc = "parse"
    /\ ~DecodeOk(raw)
    /\ pc' = "raised"
    /\ UNCHANGED << step_s, max_duration, print_openai, i, files, cap,
                    capOpened, termSignals, cancelReq, exit, stdout, windows,
                    log, raw, parsed,
                    captured, avail, streamVars >>

NextParse == ParseOutput \/ ParseRaises

SpecParse == InitParse /\ [][NextParse]_vars


SessionIdle ==
    /\ step_s = 1
    /\ max_duration = 0
    /\ print_openai = 1
    /\ pc = "none"
    /\ i = 0
    /\ files = {}
    /\ cap = "none"
    /\ capOpened = FALSE
    /\ termSignals = 0
    /\ cancelReq = FALSE
    /\ exit = "none"
    /\ stdout = << >>
    /\ windows = << >>
    /\ log = << >>
    /\ raw = << >>
    /\ parsed = << >>
    /\ captured = 0
    /\ avail = << >>

---------------------------------------------------------------------------
(* whisper_streaming.py: run_livestream (lines 6-46)                       *)
(* A line is the text readline() returns without its newline terminator.   *)

StreamLines == { << >>, << "{", " ", "}" >>, << "{" >>, << BadByte >> }

LinesUpTo(n) == UNION { [1..k -> StreamLines] : k \in 0..n }

Channels == {"out", "err"}

\* lines 42-43: the log_prefix of each reader.
LogPrefix(ch) == IF ch = "err" THEN << "[stderr] " >> ELSE << >>

\* line 34: json.dumps(data, indent=2, ensure_ascii=False); the only
\* documents of the model's alphabet are empty objects, dumped as {}.
JsonDumps(text) == << "{", "}" >>

\* lines 30-39 on a line that decodes: what read_stream prints for it.
ReadStreamOutput(ch, line) ==
    LET line_decoded == Strip(line)
    IN  IF line_decoded = << >> THEN << >>
        ELSE IF JsonLoadsOk(line_decoded)
        THEN << [chan |-> ch, text |-> LogPrefix(ch) \o JsonDumps(line_decoded)] >>
        ELSE << [chan |-> ch,
                 text |-> LogPrefix(ch) \o << ParseErrorMark >> \o line_decoded] >>

\* lines 18-22 and 42-43 have run: the child is running and both read_stream
\* tasks exist; run_livestream is at line 45.
InitStream ==
    /\ script \in [out : LinesUpTo(MaxOutLines), err : LinesUpTo(MaxErrLines)]
    /\ written = [out |-> 0, err |-> 0]
    /\ pipe = [out |-> << >>, err |-> << >>]
    /\ pipeClosed = FALSE
    /\ child = "running"
    /\ returncode \in {0, 1}
    /\ reader = [out |-> "reading", err |-> "reading"]
    /\ consumed = [out |-> 0, err |-> 0]
    /\ shown = << >>
    /\ lpc = "tasks"
    /\ retval = -1
    /\ SessionIdle

\* The child (lines 12-22) writes its next line to one of its pipes.  The
\* pipe and the StreamReader buffer hold far more than the lines of one
\* script, so the write never waits for the reader.
ChildWrite(ch) ==
    /\ child = "running"
    /\ written[ch] < Len(script[ch])
    /\ pipe' = [pipe EXCEPT ![ch] = Append(@, script[ch][written[ch] + 1])]
    /\ written' = [written EXCEPT ![ch] = @ + 1]
    /\ UNCHANGED << script, pipeClosed, child, returncode, reader, consumed,
                    shown, lpc, retval, sessionVars >>

\* The child has written everything: it exits, which closes both pipes.
ChildExit ==
    /\ child = "running"
    /\ \A ch \in Channels : written[ch] = Len(script[ch])
    /\ child' = "exited"
    /\ pipeClosed' = TRUE
    /\ UNCHANGED << script, written, pipe, returncode, reader, consumed,
                    shown, lpc, retval, sessionVars >>

\* lines 26-39: one turn of the loop of read_stream on a line.  decode() is
\* inside the try statement, but only json.JSONDecodeError is caught: a line
\* that is not valid UTF-8 ends the task with UnicodeDecodeError.
ReadLine(ch) ==
    /\ reader[ch] = "reading"
    /\ pipe[ch] # << >>
    /\ pipe' = [pipe EXCEPT ![ch] = Tail(@)]
    /\ consumed' = [consumed EXCEPT ![ch] = @ + 1]
    /\ IF DecodeOk(Head(pipe[ch]))
       THEN /\ shown' = shown \o ReadStreamOutput(ch, Head(pipe[ch]))
            /\ UNCHANGED reader
       ELSE /\ reader' = [reader EXCEPT ![ch] = "raised"]
            /\ UNCHANGED shown
    /\ UNCHANGED << script, written, pipeClosed, child, returncode, lpc,
                    retval, sessionVars >>

\* lines 27-29: readline() returns b"" at the end of the stream.
ReadEof(ch) ==
    /\ reader[ch] = "reading"
    /\ pipe[ch] = << >>
    /\ pipeClosed
    /\ reader' = [reader EXCEPT ![ch] = "eof"]
    /\ UNCHANGED << script, written, pipe, pipeClosed, child, returncode,
                    consumed, shown, lpc, retval, sessionVars >>

\* line 45: asyncio.wait returns when both tasks are done, whether they
\* returned or raised.
WaitTasks ==
    /\ lpc = "tasks"
    /\ \A ch \in Channels : reader[ch] \in {"eof", "raised"}
    /\ lpc' = "proc"
    /\ UNCHANGED << script, written, pipe, pipeClosed, child, returncode,
                    reader, consumed, shown, retval, sessionVars >>

\* line 46: return await process.wait()
WaitProcess ==
    /\ lpc = "proc"
    /\ child = "exited"
    /\ retval' = returncode
    /\ lpc' = "returned"
    /\ UNCHANGED << script, written, pipe, pipeClosed, child, returncode,
                    reader, consumed, shown, sessionVars >>

NextStream ==
    \/ \E ch \in Channels : ChildWrite(ch)
    \/ ChildExit
    \/ \E ch \in Channels : ReadLine(ch)
    \/ \E ch \in Channels : ReadEof(ch)
    \/ WaitTasks
    \/ WaitProcess

SpecStream == InitStream /\ [][NextStream]_vars

---------------------------------------------------------------------------
(* Helpers of the properties *)

CeilDiv(d, s) == (d + s - 1) \div s

IsResult(e) == e.src \in {174, 176}
ResultLines == SelectSeq(stdout, IsResult)

InCleanup == pc \in {"terminate", "rm_live", "rm_proc", "done"}
CleanupOps == {"terminate", "rm_live", "rm_proc"}

\* A printed line that is explicitly marked as a parse failure.
IsMarkedParseFailure(e) == e.text # << >> /\ e.text[1] = ParseErrorMark

\* text ends with the sequence tail
EndsWith(text, tail) ==
    /\ Len(text) >= Len(tail)
    /\ SubSeq(text, Len(text) - Len(tail) + 1, Len(text)) = tail

---------------------------------------------------------------------------
(* C1: a session that runs to its duration bound d > 0 with step s has     *)
(* issued exactly ceil(d/s) extractions, with indices 0..ceil(d/s)-1;      *)
(* window k starts at k*s and lasts s, so each window starts where the     *)
(* previous one ends.                                                      *)
C1_ExactlyCeilWindows ==
    exit = "max_duration" =>
        /\ Len(windows) = CeilDiv(max_duration, step_s)
        /\ \A k \in 1..Len(windows) :
              windows[k] = [index |-> k - 1, start |-> (k - 1) * step_s,
                            duration |-> step_s]
        /\ \A k \in 1..(Len(windows) - 1) :
              windows[k + 1].start = windows[k].start + windows[k].duration

C1_Witness ==
    /\ pc = "done" /\ exit = "max_duration"
    /\ step_s = 2 /\ max_duration = 3 /\ Len(windows) = 2

(* C2: results are emitted one at a time in increasing index order: the    *)
(* k-th result printed belongs to segment k-1, each segment has at most    *)
(* one result, and when the extraction of segment j+1 starts the result of *)
(* segment j has already been emitted.                                     *)
C2_ResultsInOrder ==
    /\ \A k \in 1..Len(ResultLines) : ResultLines[k].seg = k - 1
    /\ \A p \in 1..Len(log) :
          (log[p].op = "extract" /\ log[p].index > 0) =>
              \E q \in 1..(p - 1) :
                  log[q].op = "emit" /\ log[q].index = log[p].index - 1
    /\ \A p, q \in 1..Len(log) :
          (log[p].op = "emit" /\ log[q].op = "emit" /\ p < q) =>
              log[p].index < log[q].index

C2_Witness == Len(ResultLines) = 2 /\ pc = "tick_sleep"

(* C3: once the capture process has been spawned, a session that has ended *)
(* has sent it exactly one termination request, whatever the exit path.    *)
C3_TerminatedExactlyOnce ==
    (pc = "done" /\ cap # "none") => termSignals = 1

(* C4: when a session has ended, neither scratch file exists.              *)
C4_NoScratchAtEnd ==
    pc = "done" => files \cap ScratchPaths = {}

(* C5: after an extraction or a transcription of segment i has failed the  *)
(* session is in cleanup, and nothing but cleanup follows: no extraction,  *)
(* no transcription and no result for segment i or any later one.          *)
C5_FailureStopsSession ==
    \A p \in 1..Len(log) :
        (log[p].op \in {"extract", "transcribe"} /\ ~log[p].ok) =>
            /\ InCleanup
            /\ \A q \in (p + 1)..Len(log) : log[q].op \in CleanupOps
            /\ \A k \in 1..Len(windows) : windows[k].index <= log[p].index
            /\ \A k \in 1..Len(ResultLines) :
                  ResultLines[k].seg < log[p].index

C5_Witness ==
    /\ pc = "done"
    /\ exit \in {"extract_failed", "transcribe_failed"}
    /\ Len(ResultLines) = 1

(* C6: in structured mode an engine output that is not valid JSON is       *)
(* printed as an explicitly marked parse failure that ends with the raw    *)
(* text, and the session goes on to the wait before the next segment.      *)
C6_InvalidJsonMarked ==
    print_openai = 1 =>
        \A p \in 1..Len(log) :
            (/\ log[p].op = "transcribe"
             /\ log[p].ok
             /\ ~JsonLoadsOk(log[p].out)) =>
                /\ p < Len(log)
                /\ log[p + 1] = Event("emit", log[p].index, TRUE)
                /\ \E k \in 1..Len(stdout) :
                      /\ stdout[k].seg = log[p].index
                      /\ IsMarkedParseFailure(stdout[k])
                      /\ EndsWith(stdout[k].text, Strip(log[p].out))

(* C7: at most one segment artifact exists at any time, and the extraction *)
(* of segment j+1 begins only after segment j has been extracted and       *)
(* transcribed.                                                            *)
C7_OneSegmentInFlight ==
    /\ Cardinality(Artifacts) <= 1
    /\ \A p \in 1..Len(log) :
          (log[p].op = "extract" /\ log[p].index > 0) =>
              /\ \E q \in 1..(p - 1) :
                    log[q] = Event("extract", log[p].index - 1, TRUE)
              /\ \E q \in 1..(p - 1) :
                    /\ log[q].op = "transcribe" /\ log[q].ok
                    /\ log[q].index = log[p].index - 1
    /\ pc = "transcribe" => Len(windows) = i + 1

C7_Witness ==
    /\ pc = "transcribe" /\ i = 1
    /\ Artifacts = {processed_audio_path}


(* C8: a cancellation that has been requested when the coroutine waits     *)
(* between ticks ends that wait with no further extraction, and once       *)
(* CancelledError has been raised there nothing but the cleanup follows:   *)
(* when the session has ended by that cancellation, the capture process    *)
(* has been sent exactly one termination request and both removals have    *)
(* run.                                                                    *)
C8_CancelAtTickWait ==
    /\ [](\A p \in 1..Len(log) :
            (log[p].op = "tick_sleep" /\ ~log[p].ok) =>
                /\ InCleanup
                /\ \A q \in (p + 1)..Len(log) : log[q].op \in CleanupOps
                /\ (pc = "done" /\ exit = "cancelled") =>
                      /\ Len(log) = p + 3
                      /\ log[p + 1].op = "terminate"
                      /\ log[p + 2].op = "rm_live"
                      /\ log[p + 3].op = "rm_proc"
                      /\ termSignals = 1
                      /\ processed_audio_path \notin files)
    /\ [][(pc = "tick_sleep" /\ cancelReq /\ pc' # pc) =>
              /\ pc' = "terminate"
              /\ windows' = windows
              /\ stdout' = stdout]_vars

C8_Witness ==
    /\ pc = "done" /\ exit = "cancelled"
    /\ Len(windows) = 2 /\ termSignals = 1

---------------------------------------------------------------------------
(* Lines of an engine output, for the parser's properties *)

IsBlank(line) == \A k \in 1..Len(line) : IsSpace(line[k])

NonBlankIndexes(text) ==
    { k \in 1..Len(SplitNL(text)) : ~IsBlank(SplitNL(text)[k]) }

Max(S) == CHOOSE x \in S : \A y \in S : y <= x
Min(S) == CHOOSE x \in S : \A y \in S : x <= y

LastNonBlankLine(text) == SplitNL(text)[Max(NonBlankIndexes(text))]

(* C9, as stated: in plain-text mode the text printed for an output with a *)
(* non-empty line is exactly the last non-empty line of the output (read   *)
(* in the claim's favour: the last line that is not blank).                *)
C9_ExactlyLastLine ==
    (pc = "parsed" /\ print_openai = 0 /\ NonBlankIndexes(raw) # {}) =>
        parsed[1].text = LastNonBlankLine(raw)

(* C9, amended: in plain-text mode the text printed for a decodable output *)
(* with a non-blank line is the last non-blank line without its trailing   *)
(* white space, and without its leading white space too when no non-blank  *)
(* line precedes it.                                                       *)
C9_LastLineTrimmed ==
    (pc = "parsed" /\ print_openai = 0 /\ NonBlankIndexes(raw) # {}) =>
        /\ Len(parsed) = 1
        /\ parsed[1].text =
              IF Min(NonBlankIndexes(raw)) = Max(NonBlankIndexes(raw))
              THEN Strip(LastNonBlankLine(raw))
              ELSE RStrip(LastNonBlankLine(raw))

C9_Witness ==
    /\ pc = "parsed" /\ print_openai = 0
    /\ raw = << "a", NL, " ", "{" >>
    /\ parsed[1].text = << " ", "{" >>

(* C10: in plain-text mode an engine run that succeeds with empty output   *)
(* yields a marked parse failure, not a result with empty text.            *)
C10_EmptyIsParseError ==
    (pc = "parsed" /\ print_openai = 0 /\ raw = << >>) =>
        /\ IsMarkedParseFailure(parsed[1])
        /\ parsed[1].text # << >>


---------------------------------------------------------------------------
(* C11: no error report (extraction failure, transcription failure) is     *)
(* ever written to the primary output channel.                             *)
C11_ErrorsOffPrimary ==
    \A k \in 1..Len(stdout) : stdout[k].src \notin {153, 178}

(* C12, as stated: with max_duration > 0, no window i with                 *)
(* (i+1)*step > max_duration is extracted: every window ends at or before  *)
(* max_duration.                                                           *)
C12_WindowsEndInBound ==
    max_duration > 0 =>
        \A k \in 1..Len(windows) :
            (windows[k].index + 1) * step_s <= max_duration

(* C12, amended: with max_duration > 0 the duration check comes after each *)
(* window has been processed and the wait that follows it, and no window i *)
(* with i*step >= max_duration is extracted: every window starts before    *)
(* max_duration (the last one may end after it).                           *)
C12_WindowsStartInBound ==
    max_duration > 0 =>
        /\ \A k \in 1..Len(windows) : windows[k].start < max_duration
        /\ \A p \in 1..Len(log) :
              (log[p].op = "extract" /\ log[p].index > 0) =>
                  log[p - 1] = Event("tick_sleep", log[p].index, TRUE)

C12_Witness ==
    /\ max_duration = 3 /\ step_s = 2
    /\ Len(windows) = 2
    /\ windows[2].start + windows[2].duration > max_duration
    /\ pc = "tick_sleep"

(* C13: an extraction run while the captured data ends before the end of   *)
(* its window never succeeds.                                              *)
C13_NoShortArtifact ==
    \A k \in 1..Len(avail) :
        (\E p \in 1..Len(log) : log[p] = Event("extract", windows[k].index, TRUE))
            => avail[k] >= windows[k].start + windows[k].duration

(* C14: no segment artifact exists while the coroutine waits between two   *)
(* ticks.                                                                  *)
C14_NoArtifactWhileWaiting ==
    pc = "tick_sleep" => Artifacts = {}

(* C15: every extraction comes after the spawn of the capture process and  *)
(* one completed buffering wait, in that order.                            *)
C15_SpawnBufferRun ==
    /\ Len(windows) > 0 =>
          /\ Len(log) >= 3
          /\ log[1] = Event("spawn", -1, TRUE)
          /\ log[2] = Event("buffer_sleep", -1, TRUE)
          /\ cap # "none"
    /\ pc \in {"extract", "transcribe", "tick_sleep"} =>
          /\ Len(log) >= 2
          /\ log[1] = Event("spawn", -1, TRUE)
          /\ log[2] = Event("buffer_sleep", -1, TRUE)
    /\ \A p \in 1..Len(log) : log[p].op = "buffer_sleep" => p = 2

C15_Witness ==
    /\ pc = "transcribe" /\ i = 0 /\ Len(log) = 3 /\ Len(windows) = 1

(* C16: with max_duration = 0 the loop is never left because of the        *)
(* duration bound, and unless an extraction or a transcription fails or a  *)
(* cancellation is requested, every segment n is eventually processed.     *)
C16_UnboundedRuns ==
    /\ [](max_duration = 0 => exit # "max_duration")
    /\ \A n \in 0..(MaxSegments - 1) :
          (max_duration = 0) =>
              <>(exit # "none" \/ cancelReq \/ Len(ResultLines) > n)

C16_Witness ==
    /\ max_duration = 0 /\ exit = "none" /\ ~cancelReq
    /\ Len(ResultLines) = 2 /\ pc = "tick_sleep"

(* C18: a session that ends after a normal completion or a graceful stop   *)
(* returns a success code, and a session that fails to start the capture   *)
(* process ends with a failure after the same cleanup: both removals run.  *)
C18_ExitStatus ==
    pc = "done" =>
        /\ exit \in {"max_duration", "extract_failed", "transcribe_failed"}
              => ~Raises(exit)
        /\ exit = "spawn_failed" =>
              /\ Raises(exit)
              /\ \E p \in 1..Len(log) : log[p].op = "rm_live"
              /\ \E p \in 1..Len(log) : log[p].op = "rm_proc"

(* C19: the duration bound is checked only after a segment has been        *)
(* processed, the index advanced and one wait completed: a session past    *)
(* buffering attempts segment 0 whatever max_duration is, a bounded        *)
(* session waits once more after its last segment before cleanup, and a    *)
(* failing tick neither advances the index nor waits.                      *)
C19_CheckAfterWait ==
    /\ (InCleanup /\ exit \notin {"cancelled_start", "spawn_failed",
                                  "cancelled_buffering", "interrupted"})
          => /\ \E p \in 1..Len(log) :
                   log[p].op = "extract" /\ log[p].index = 0
             /\ Len(windows) >= 1 => windows[1].index = 0
    /\ pc = "tick_sleep" => i = Len(windows)
    /\ exit = "max_duration" =>
          \E p \in 2..Len(log) :
              /\ log[p] = Event("tick_sleep", Len(windows), TRUE)
              /\ log[p - 1] = Event("emit", Len(windows) - 1, TRUE)
              /\ \A q \in (p + 1)..Len(log) : log[q].op \in CleanupOps
    /\ exit \in {"extract_failed", "transcribe_failed"} =>
          /\ i = windows[Len(windows)].index
          /\ \E p \in 1..Len(log) :
                /\ log[p].op \in {"extract", "transcribe"}
                /\ ~log[p].ok
                /\ log[p].index = i
                /\ \A q \in (p + 1)..Len(log) : log[q].op \in CleanupOps

C19_Witness ==
    /\ pc = "done" /\ exit = "max_duration"
    /\ step_s = 2 /\ max_duration = 1 /\ Len(windows) = 1


---------------------------------------------------------------------------
\* The printed outputs that come from one channel, in order.
FromChannel(ch) == SelectSeq(shown, LAMBDA e : e.chan = ch)

\* What the lines a reader has consumed print, when each is handled alone.
RECURSIVE OutputsOf(_, _)
OutputsOf(ch, lines) ==
    IF lines = << >> THEN << >>
    ELSE (IF DecodeOk(Head(lines)) THEN ReadStreamOutput(ch, Head(lines))
          ELSE << >>) \o OutputsOf(ch, Tail(lines))

(* C17: the reader of the primary channel stops only at the end of the     *)
(* stream, having processed every line the child wrote to it, whatever the *)
(* diagnostic channel does; every output that comes from a diagnostic line *)
(* starts with "[stderr] " and no output from a primary line does.         *)
C17_PrimaryNeverBlocked ==
    /\ reader.out # "reading" => consumed.out = Len(script.out)
    /\ \A k \in 1..Len(shown) :
          (shown[k].chan = "err") <=> (shown[k].text[1] = "[stderr] ")

(* C20: run_livestream returns only after both readers have reached the    *)
(* end of their stream and the child has exited, with the child's exit     *)
(* status; the outputs of each stream are in the order of its lines and    *)
(* blank lines print nothing.                                              *)
C20_ReturnsAfterBothEof ==
    /\ lpc = "returned" =>
          /\ \A ch \in Channels : reader[ch] = "eof"
          /\ child = "exited"
          /\ retval = returncode
    /\ \A ch \in Channels :
          FromChannel(ch) = OutputsOf(ch, SubSeq(script[ch], 1, consumed[ch]))

============================================================================
